---- MODULE Spec2Model ----
(***************************************************************************)
(* A model of the cookie-jar crate: the cookie-string parser               *)
(* (src/cookie/parse/mod.rs), the cookie-date parser                       *)
(* (src/cookie/parse/date.rs), the cookie builder (src/cookie/mod.rs) and  *)
(* the jar (src/jar.rs).                                                   *)
(*                                                                         *)
(* Text is a sequence of one-character strings; Ord gives the byte value   *)
(* of a character, so the byte classes are the ranges the code tests.      *)
(* Byte 0x60 is written "<60>" and the horizontal tab "\t".                *)
(*                                                                         *)
(* A value that is computed once and then used several times, as a local   *)
(* of the code is, is bound as the one element of a set:                   *)
(* CHOOSE result \in {F(x) : x \in {e}} : TRUE is F(e).                     *)
(***************************************************************************)
EXTENDS Integers, Sequences, FiniteSets, TLC

VARIABLES
    jar,        \* Jar { domain, hosts }
    log,        \* the cookies passed to add_cookie so far, in call order
    url,        \* the argument of the last url_matches call, or NoUrl
    matches,    \* what that call returned: a set of references into the jar
    draft,      \* the Builder the caller holds, or Panic
    calls,      \* the builder methods called so far, in call order
    product,    \* what a finalizer or a parse function returned, and when
    rendered,   \* what to_string returned for the SetCookie in product
    reparsed,   \* what SetCookie::parse returned for the rendered text
    clock,      \* the instant now_utc() returns
    words,      \* the tokens and words a date text was joined from
    input,      \* the text handed to a decoder
    output      \* what the decoder returned

jarVars == <<jar, log, url, matches>>

cookieVars == <<draft, calls, product, rendered, reparsed, clock>>

textVars == <<words, input, output>>

vars == <<jar, log, url, matches, draft, calls, product, rendered, reparsed, clock,
          words, input, output>>

----------------------------------------------------------------------------
(* Bytes and text                                                          *)

Ascii ==
    << " ", "!", "\"", "#", "$", "%", "&", "'", "(", ")", "*", "+", ",", "-", ".", "/",
       "0", "1", "2", "3", "4", "5", "6", "7", "8", "9", ":", ";", "<", "=", ">", "?",
       "@", "A", "B", "C", "D", "E", "F", "G", "H", "I", "J", "K", "L", "M", "N", "O",
       "P", "Q", "R", "S", "T", "U", "V", "W", "X", "Y", "Z", "[", "\\", "]", "^", "_",
       "<60>", "a", "b", "c", "d", "e", "f", "g", "h", "i", "j", "k", "l", "m", "n", "o",
       "p", "q", "r", "s", "t", "u", "v", "w", "x", "y", "z", "{", "|", "}", "~" >>

OrdTable ==
    [c \in {Ascii[i] : i \in 1..Len(Ascii)} \cup {"\t"} |->
        IF c = "\t" THEN 9 ELSE 31 + (CHOOSE i \in 1..Len(Ascii) : Ascii[i] = c)]

Ord(c) == OrdTable[c]

Ok(v) == [tag |-> "Ok", val |-> v]

Err(e) == [tag |-> "Err", err |-> e]

Panic == [tag |-> "Panic"]

IsOk(r) == r.tag = "Ok"

IsErr(r, e) == r.tag = "Err" /\ r.err = e

None == [tag |-> "None"]

Some(v) == [tag |-> "Some", val |-> v]

Drop(s, n) == SubSeq(s, n + 1, Len(s))

Take(s, n) == SubSeq(s, 1, n)

StartsWith(s, prefix) == Len(s) >= Len(prefix) /\ Take(s, Len(prefix)) = prefix

RECURSIVE TrimLeftMatches(_, _)
TrimLeftMatches(s, c) ==
    IF s # <<>> /\ Head(s) = c THEN TrimLeftMatches(Tail(s), c) ELSE s

RECURSIVE TrimRightMatches(_, _)
TrimRightMatches(s, c) ==
    IF s # <<>> /\ s[Len(s)] = c THEN TrimRightMatches(Take(s, Len(s) - 1), c) ELSE s

TrimMatches(s, c) == TrimRightMatches(TrimLeftMatches(s, c), c)

RECURSIVE SplitFrom(_, _, _)
SplitFrom(s, c, current) ==
    IF s = <<>> THEN <<current>>
    ELSE IF Head(s) = c THEN <<current>> \o SplitFrom(Tail(s), c, <<>>)
    ELSE SplitFrom(Tail(s), c, Append(current, Head(s)))

Split(s, c) == SplitFrom(s, c, <<>>)

RECURSIVE RFind(_, _)
RFind(s, c) ==
    IF s = <<>> THEN 0
    ELSE IF s[Len(s)] = c THEN Len(s)
    ELSE RFind(Take(s, Len(s) - 1), c)

----------------------------------------------------------------------------
(* The byte classes and the pair decoder, src/cookie/parse/mod.rs          *)

is_ctl(byte) == byte <= 31 \/ byte = 127

is_separator(byte) ==
    byte \in {Ord("("), Ord(")"), Ord("<"), Ord(">"), Ord("@"), Ord(","), Ord(";"),
              Ord(":"), Ord("\\"), Ord("\""), Ord("/"), Ord("["), Ord("]"), Ord("?"),
              Ord("="), Ord("{"), Ord("}"), Ord(" "), Ord("\t")}

is_token_octet(byte) == ~(is_ctl(byte) \/ is_separator(byte))

is_fragment_octet(byte) == ~(is_ctl(byte) \/ byte = Ord(";"))

is_cookie_octet(byte) ==
    \/ byte = 33
    \/ (byte >= 35 /\ byte <= 43)
    \/ (byte >= 45 /\ byte <= 58)
    \/ (byte >= 60 /\ byte <= 91)
    \/ (byte >= 93 /\ byte <= 126)

RECURSIVE MatchLen(_, _, _)
MatchLen(source, octets, len) ==
    IF len < Len(source) /\ Ord(source[len + 1]) \in octets
    THEN MatchLen(source, octets, len + 1)
    ELSE len

\* collect_matching(source, test), the test given as the set of the bytes
\* that pass it
collect_matching(source, octets) == Take(source, MatchLen(source, octets, 0))

Bytes == 0..255

TokenOctets == {byte \in Bytes : is_token_octet(byte)}

CookieOctets == {byte \in Bytes : is_cookie_octet(byte)}

FragmentOctets == {byte \in Bytes : is_fragment_octet(byte)}

maybe_quoted(text) ==
    IF Len(text) >= 1 /\ text[1] = "\""
    THEN IF Len(text) >= 2 /\ text[Len(text)] = "\""
         THEN Ok([quoted |-> TRUE, text |-> text])
         ELSE Err("MissingQuote")
    ELSE Ok([quoted |-> FALSE, text |-> text])

non_zero_length(s) == IF Len(s) > 0 THEN Ok(s) ELSE Err("NotEnoughBytes")

next_token(source) == non_zero_length(collect_matching(source, TokenOctets))

next_cookie_value(source) ==
    LET run == non_zero_length(collect_matching(source, CookieOctets))
    IN  IF IsOk(run) THEN maybe_quoted(run.val) ELSE run

next_fragment(source) == non_zero_length(collect_matching(source, FragmentOctets))

from_bytes(source) ==
    LET name == next_token(source) IN
    IF ~IsOk(name) THEN name
    ELSE
      LET name_len == Len(name.val)
          value_start == name_len + 1
      IN
      IF ~(Len(source) >= value_start /\ source[name_len + 1] = "=")
      THEN Err("MissingDelimiter")
      ELSE
        LET value == next_cookie_value(Drop(source, value_start)) IN
        IF ~IsOk(value) THEN value
        ELSE Ok([pair |-> source,
                 name_len |-> name_len,
                 value_location |->
                    IF value.val.quoted
                    THEN <<value_start + 1, Len(value.val.text) - 2>>
                    ELSE <<value_start, Len(value.val.text)>>])

\* &s[start..end] on text held 0-based: a range with start > end or end > len panics.
Slice(s, start, end) ==
    IF start <= end /\ end <= Len(s) THEN Ok(SubSeq(s, start + 1, end)) ELSE Panic

PairName(p) == Slice(p.pair, 0, p.name_len)

PairValue(p) == Slice(p.pair, p.value_location[1], p.value_location[2])

PairAsStr(p) == p.pair

DefaultPair == [pair |-> <<>>, name_len |-> 0, value_location |-> <<0, 0>>]

----------------------------------------------------------------------------
(* The cookie-date parser, src/cookie/parse/date.rs                        *)

is_ascii_digit(c) == Ord(c) >= 48 /\ Ord(c) <= 57

is_ascii_alphanumeric(byte) ==
    \/ (byte >= 48 /\ byte <= 57)
    \/ (byte >= 65 /\ byte <= 90)
    \/ (byte >= 97 /\ byte <= 122)

to_ascii_lowercase(c) ==
    IF Ord(c) >= 65 /\ Ord(c) <= 90 THEN Ascii[Ord(c) + 32 - 31] ELSE c

\* Only blanks delimit.
is_delimiter_blank(byte) == byte = 9 \/ byte = 32

is_delimiter(byte) ==
    \/ byte = 9
    \/ (byte >= 32 /\ byte <= 47)
    \/ (byte >= 59 /\ byte <= 64)
    \/ (byte >= 91 /\ byte <= 96)
    \/ (byte >= 123 /\ byte <= 126)

is_non_delimiter(byte) ==
    \/ byte <= 8
    \/ (byte >= 10 /\ byte <= 31)
    \/ is_ascii_alphanumeric(byte)
    \/ byte = 58
    \/ byte >= 127

NonDelimiters == {byte \in Bytes : is_non_delimiter(byte)}

DelimiterBytes == {byte \in Bytes : is_delimiter(byte)}

next_date_token(source) == non_zero_length(collect_matching(source, NonDelimiters))

next_date_delimiter(source) == non_zero_length(collect_matching(source, DelimiterBytes))

\* The fold of decode_digits: the value and the count of the leading digits.
RECURSIVE LeadingDigits(_, _, _)
LeadingDigits(text, value, count) ==
    IF text # <<>> /\ is_ascii_digit(Head(text))
    THEN LeadingDigits(Tail(text), value * 10 + (Ord(Head(text)) - 48), count + 1)
    ELSE <<value, count>>

\* Some(<<value, remaining>>) or None
decode_digits(token, min, max) ==
    IF Len(token) < min \/ ~is_ascii_digit(token[1]) THEN None
    ELSE LET max_len == IF max < Len(token) THEN max ELSE Len(token)
             folded == LeadingDigits(Take(token, max_len), 0, 0)
         IN  Some(<<folded[1], Drop(token, folded[2])>>)

decode_time_field(source) == decode_digits(source, 1, 2)

\* and_then: None and a panic pass through.
cookie_time_continues(decoded) ==
    IF Len(decoded[2]) >= 2 /\ decoded[2][1] = ":" THEN Some(decoded) ELSE None

decode_next_time_field(decoded) ==
    LET field == decode_time_field(Tail(decoded[2])) IN
    IF field.tag = "Some"
    THEN Some(<<Append(decoded[1], field.val[1]), field.val[2]>>)
    ELSE None

\* remaining[1] is read whenever remaining is not empty: a remainder of one
\* byte is an index out of bounds.
invalid_if_trailing_digit(decoded) ==
    IF Len(decoded[2]) > 0
    THEN IF Len(decoded[2]) < 2 THEN Panic
         ELSE IF is_ascii_digit(decoded[2][2]) THEN None ELSE Some(decoded[1])
    ELSE Some(decoded[1])

\* Some(<<hour, minute, second>>), None or a panic: the and_then chain, each
\* step taken only when the one before gave Some.
decode_time(token) ==
    LET hour == decode_time_field(token)
        first == IF hour.tag = "Some"
                 THEN cookie_time_continues(<<<<hour.val[1]>>, hour.val[2]>>) ELSE None
        minute == IF first.tag = "Some" THEN decode_next_time_field(first.val) ELSE None
        second == IF minute.tag = "Some" THEN cookie_time_continues(minute.val) ELSE None
        last == IF second.tag = "Some" THEN decode_next_time_field(second.val) ELSE None
    IN  IF last.tag = "Some" THEN invalid_if_trailing_digit(last.val) ELSE None

decode_day(token) ==
    LET field == decode_time_field(token) IN
    IF field.tag = "Some" THEN invalid_if_trailing_digit(field.val) ELSE None

Months ==
    << <<"j", "a", "n">>, <<"f", "e", "b">>, <<"m", "a", "r">>, <<"a", "p", "r">>,
       <<"m", "a", "y">>, <<"j", "u", "n">>, <<"j", "u", "l">>, <<"a", "u", "g">>,
       <<"s", "e", "p">>, <<"o", "c", "t">>, <<"n", "o", "v">>, <<"d", "e", "c">> >>

decode_month(token) ==
    IF Len(token) < 3 THEN None
    ELSE LET found == {m \in 1..12 : \A k \in 1..3 : to_ascii_lowercase(token[k]) = Months[m][k]}
         IN  IF found = {} THEN None ELSE Some((CHOOSE m \in found : TRUE) - 1)

\* No uplift: every year is taken as written.
uplift_never(year) == year

Uplift(year) ==
    IF year >= 0 /\ year <= 69 THEN year + 2000
    ELSE IF year >= 70 /\ year <= 99 THEN year + 1900
    ELSE year

\* The year since 1900, as Tm stores it.
decode_year(token) ==
    LET digits == decode_digits(token, 2, 4)
        decoded == IF digits.tag = "Some" THEN invalid_if_trailing_digit(digits.val) ELSE None
    IN  IF decoded.tag = "Some" THEN Some(Uplift(decoded.val) - 1900) ELSE decoded

\* The % of Rust: the remainder has the sign of the dividend.
Rem(a, b) == IF a >= 0 THEN a % b ELSE 0 - ((0 - a) % b)

is_leap_year(year) ==
    Rem(year, 400) = 0 \/ (Rem(year, 100) # 0 /\ Rem(year, 4) = 0)

month_days == <<31, 28, 31, 30, 31, 30, 31, 31, 30, 31, 30, 31>>

verify_date(day, month, year) ==
    IF ~(day >= 0 /\ month >= 0 /\ month < 12) THEN Err("InvalidDate")
    ELSE IF ~((is_leap_year(year) /\ month = 1 /\ day <= 29) \/ day <= month_days[month + 1])
    THEN Err("InvalidDate")
    ELSE Ok(TRUE)

DateUnset == [time |-> None, day |-> None, month |-> None, year |-> None]

DateIterNew(source) == [remaining |-> source, first |-> TRUE]

\* DateIter::next_token: the iterator afterwards and Ok(None), Ok(Some(token))
\* or the error.
DateIterNext(iter) ==
    IF Len(iter.remaining) = 0 THEN [iter |-> iter, item |-> Ok(None)]
    ELSE
      LET delimiter == IF iter.first THEN Ok(<<>>) ELSE next_date_delimiter(iter.remaining) IN
      IF ~IsOk(delimiter)
      THEN [iter |-> [iter EXCEPT !.first = FALSE], item |-> delimiter]
      ELSE
        LET rest == Drop(iter.remaining, Len(delimiter.val))
            token == next_date_token(rest)
        IN  IF ~IsOk(token)
            THEN [iter |-> [remaining |-> rest, first |-> FALSE], item |-> token]
            ELSE [iter |-> [remaining |-> Drop(rest, Len(token.val)), first |-> FALSE],
                  item |-> Ok(Some(token.val))]

\* Date::try_replace on one slot, value being what decode(token) returns (it
\* is looked at only when the slot is empty): the slot afterwards and Some(())
\* when it was replaced, None when not; a panic of the decoder passes through.
try_replace(field, value) ==
    IF field = None
    THEN IF value.tag = "Some" THEN [field |-> value, replaced |-> Some(TRUE)]
         ELSE IF value = Panic THEN [field |-> field, replaced |-> Panic]
         ELSE [field |-> field, replaced |-> None]
    ELSE [field |-> field, replaced |-> None]

\* The body of the loop of Date::gather for one token: Ok(date) or a panic.
GatherToken(date, token) ==
    LET time == try_replace(date.time, decode_time(token)) IN
    IF time.replaced # None
    THEN IF time.replaced = Panic THEN Panic ELSE Ok([date EXCEPT !.time = time.field])
    ELSE
    LET day == try_replace(date.day, decode_day(token)) IN
    IF day.replaced # None
    THEN IF day.replaced = Panic THEN Panic ELSE Ok([date EXCEPT !.day = day.field])
    ELSE
    LET month == try_replace(date.month, decode_month(token)) IN
    IF month.replaced # None
    THEN Ok([date EXCEPT !.month = month.field])
    ELSE
    LET year == try_replace(date.year, decode_year(token)) IN
    IF year.replaced = Panic THEN Panic ELSE Ok([date EXCEPT !.year = year.field])

\* The loop of Date::gather
RECURSIVE Gather(_, _)
Gather(iter, date) ==
    CHOOSE result \in
        {IF ~IsOk(next.item) THEN next.item
         ELSE IF next.item.val = None THEN Ok(date)
         ELSE CHOOSE rest \in
                {IF IsOk(gathered) THEN Gather(next.iter, gathered.val) ELSE gathered :
                    gathered \in {GatherToken(date, next.item.val.val)}} : TRUE :
            next \in {DateIterNext(iter)}} : TRUE

Tm(second, minute, hour, day, month, year) ==
    [tm_sec |-> second, tm_min |-> minute, tm_hour |-> hour, tm_mday |-> day,
     tm_mon |-> month, tm_year |-> year, tm_wday |-> 0, tm_yday |-> 0]

into_time(date) ==
    IF date.time # None /\ date.day # None /\ date.month # None /\ date.year # None
    THEN LET hour == date.time.val[1]
             minute == date.time.val[2]
             second == date.time.val[3]
         IN  IF ~(second >= 0 /\ second < 60 /\ minute >= 0 /\ second < 60
                  /\ hour >= 0 /\ hour < 24)
             THEN Err("InvalidDate")
             ELSE LET verified == verify_date(date.day.val, date.month.val, date.year.val) IN
                  IF ~IsOk(verified) THEN verified
                  ELSE Ok(Tm(second, minute, hour, date.day.val, date.month.val, date.year.val))
    ELSE Err("IncompleteDate")

date_parse(source) ==
    CHOOSE result \in
        {IF IsOk(gathered) THEN into_time(gathered.val) ELSE gathered :
            gathered \in {Gather(DateIterNew(source), DateUnset)}} : TRUE

----------------------------------------------------------------------------
(* The attributes of a header, src/cookie/parse/mod.rs                     *)

ExpiresPrefix == <<"E", "x", "p", "i", "r", "e", "s", "=">>

MaxAgePrefix == <<"M", "a", "x", "-", "A", "g", "e", "=">>

DomainPrefix == <<"D", "o", "m", "a", "i", "n", "=">>

PathPrefix == <<"P", "a", "t", "h", "=">>

SecureText == <<"S", "e", "c", "u", "r", "e">>

HttpOnlyText == <<"H", "t", "t", "p", "O", "n", "l", "y">>

Separator == <<";", " ">>

\* str::parse::<i64>: an optional sign and at least one digit, nothing else.
\* The texts of the model stay far inside the range of i64.
ParseInt(text) ==
    LET negative == text # <<>> /\ Head(text) = "-"
        digits == IF text # <<>> /\ Head(text) \in {"-", "+"} THEN Tail(text) ELSE text
        folded == LeadingDigits(digits, 0, 0)
    IN  IF digits = <<>> \/ folded[2] # Len(digits) THEN Err("ParseInt")
        ELSE Ok(IF negative THEN 0 - folded[1] ELSE folded[1])

Argument(kind, value) == [kind |-> kind, value |-> value]

\* Argument::decode: Ok(argument), an error or a panic of the date parser
decode(fragment) ==
    IF StartsWith(fragment, ExpiresPrefix)
    THEN CHOOSE result \in
            {IF IsOk(time) THEN Ok(Argument("Expires", time.val)) ELSE time :
                time \in {date_parse(Drop(fragment, 8))}} : TRUE
    ELSE IF StartsWith(fragment, MaxAgePrefix)
    THEN LET seconds == ParseInt(Drop(fragment, 8)) IN
         IF IsOk(seconds) THEN Ok(Argument("MaxAge", seconds.val)) ELSE seconds
    ELSE IF StartsWith(fragment, DomainPrefix)
    THEN Ok(Argument("Domain", Drop(fragment, 7)))
    ELSE IF StartsWith(fragment, PathPrefix)
    THEN Ok(Argument("Path", Drop(fragment, 5)))
    ELSE IF fragment = SecureText THEN Ok(Argument("Secure", <<>>))
    ELSE IF fragment = HttpOnlyText THEN Ok(Argument("HttpOnly", <<>>))
    ELSE Ok(Argument("Extension", fragment))

\* ArgumentIter::next_argument: what is left afterwards and Ok(None),
\* Ok(Some(argument)), the error or the panic.
next_argument(remaining) ==
    IF Len(remaining) = 0 THEN [remaining |-> remaining, item |-> Ok(None)]
    ELSE IF ~(Len(remaining) >= 2 /\ Take(remaining, 2) = Separator)
    THEN [remaining |-> remaining, item |-> Err("MissingDelimiter")]
    ELSE LET rest == Drop(remaining, 2) IN
         CHOOSE result \in
            {IF ~IsOk(next) THEN [remaining |-> rest, item |-> next]
             ELSE CHOOSE decoded \in
                    {[remaining |-> Drop(rest, Len(next.val)),
                      item |-> IF IsOk(argument) THEN Ok(Some(argument.val)) ELSE argument] :
                        argument \in {decode(next.val)}} : TRUE :
                next \in {next_fragment(rest)}} : TRUE

split_cookie(source) ==
    LET cookie == next_fragment(source) IN
    IF IsOk(cookie) THEN Ok(<<cookie.val, Drop(source, Len(cookie.val))>>) ELSE cookie

\* Ok(<<pair, what the ArgumentIter starts from>>) or the error
process_cookie(source) ==
    LET split == split_cookie(source) IN
    IF ~IsOk(split) THEN split
    ELSE LET pair == from_bytes(split.val[1]) IN
         IF IsOk(pair) THEN Ok(<<pair.val, split.val[2]>>) ELSE pair

----------------------------------------------------------------------------
(* Hosts, URLs and attributes, src/cookie/mod.rs                           *)

\* url::Host: a domain name or an IP address.
Domain(name) == [kind |-> "Domain", name |-> name]

Ipv4(addr) == [kind |-> "Ipv4", name |-> addr]

\* url::Url as the crate reads it: scheme(), host() and path().
Url(scheme, host, path) == [scheme |-> scheme, host |-> host, path |-> path]

Never == [tag |-> "Never"]

AtUtc(time) == [tag |-> "AtUtc", time |-> time]

DefaultAttributes ==
    [pair |-> DefaultPair, expiry |-> Never, host_only |-> TRUE,
     secure |-> FALSE, http_only |-> FALSE]

\* The whole path, whatever stands after its last '/'
url_dir_path_whole(u) == Ok(u.path)

url_dir_path(u) ==
    LET path == u.path IN
    IF path # <<>> /\ path[Len(path)] = "/" THEN Ok(path)
    ELSE LET end == RFind(path, "/") IN
         IF end = 0 THEN Panic ELSE Ok(Take(path, end))

----------------------------------------------------------------------------
(* The clock of the time crate.  An instant is a number of seconds since   *)
(* the epoch; the conversions are those of the first four weeks of 1970,    *)
(* which the instants of the model never leave.                             *)

at_utc(instant) ==
    [tm_sec |-> instant % 60, tm_min |-> (instant \div 60) % 60,
     tm_hour |-> (instant \div 3600) % 24, tm_mday |-> 1 + (instant \div 86400),
     tm_mon |-> 0, tm_year |-> 70,
     tm_wday |-> (4 + (instant \div 86400)) % 7, tm_yday |-> instant \div 86400]

to_timespec(time) ==
    (time.tm_mday - 1) * 86400 + time.tm_hour * 3600 + time.tm_min * 60 + time.tm_sec

\* Tm + Duration
TmAdd(time, duration) == at_utc(to_timespec(time) + duration)

----------------------------------------------------------------------------
(* The builder, SetCookie and Cookie, src/cookie/mod.rs                    *)

Lowercase(text) == [i \in 1..Len(text) |-> to_ascii_lowercase(text[i])]

ForbiddenHostBytes == {9, 32, 35, 37, 47, 58, 60, 62, 63, 64, 91, 92, 93, 94, 124}

AllDigits(text) == text # <<>> /\ \A i \in 1..Len(text) : is_ascii_digit(text[i])

\* url::Host::parse: an empty text or a forbidden byte is an error, a text
\* ending in a number is an IPv4 address or an error, and everything else is
\* a domain name in lower case.
HostParse(text) ==
    LET labels == Split(text, ".") IN
    IF text = <<>> \/ \E i \in 1..Len(text) : Ord(text[i]) \in ForbiddenHostBytes
    THEN Err("Url")
    ELSE IF AllDigits(labels[Len(labels)])
    THEN IF Len(labels) = 4 /\ \A i \in 1..4 : AllDigits(labels[i])
         THEN Ok(Ipv4(text)) ELSE Err("Url")
    ELSE Ok(Domain(Lowercase(text)))

Http == [kind |-> "Http"]

Https == [kind |-> "Https"]

Other(scheme) == [kind |-> "Other", scheme |-> scheme]

Scheme_from(u) ==
    IF u.scheme = "http" THEN Http
    ELSE IF u.scheme = "https" THEN Https
    ELSE Other(u.scheme)

is_http(scheme) == scheme = Http \/ scheme = Https

\* A test that takes every scheme for a secure one
is_secure_always(scheme) == TRUE

is_secure(scheme) == scheme = Https

BuilderDefault ==
    [host |-> None, path |-> None, scheme |-> None,
     attributes |-> DefaultAttributes, error |-> None]

Builder_error(self, error) ==
    IF self.error = None THEN [self EXCEPT !.error = Some(error)] ELSE self

\* The builder, or Panic when the URL has a host and a path without '/'
Builder_origin(self, origin) ==
    IF origin.host # None
    THEN LET dir == url_dir_path(origin) IN
         IF ~IsOk(dir) THEN Panic
         ELSE [self EXCEPT !.host = origin.host,
                           !.path = Some(dir.val),
                           !.scheme = Some(Scheme_from(origin)),
                           !.attributes.host_only = TRUE]
    ELSE Builder_error(self, "InvalidOrigin")

Builder_host(self, host) ==
    [self EXCEPT !.host = Some(host), !.attributes.host_only = TRUE]

Builder_host_str(self, host) ==
    LET parsed == HostParse(host) IN
    IF IsOk(parsed) THEN Builder_host(self, parsed.val)
    ELSE Builder_error(self, parsed.err)

\* A domain(..) that keeps the host an origin has given
Builder_domain_kept(self, domain) ==
    LET parsed == HostParse(domain) IN
    IF self.host # None THEN self
    ELSE IF IsOk(parsed)
    THEN [self EXCEPT !.host = Some(parsed.val), !.attributes.host_only = FALSE]
    ELSE Builder_error(self, parsed.err)

Builder_domain(self, domain) ==
    LET parsed == HostParse(domain) IN
    IF IsOk(parsed)
    THEN [self EXCEPT !.host = Some(parsed.val), !.attributes.host_only = FALSE]
    ELSE Builder_error(self, parsed.err)

Builder_path(self, path) == [self EXCEPT !.path = Some(path)]

Builder_pair(self, pair) == [self EXCEPT !.attributes.pair = pair]

Builder_pair_str(self, pair) ==
    LET parsed == from_bytes(pair) IN
    IF IsOk(parsed) THEN Builder_pair(self, parsed.val)
    ELSE Builder_error(self, parsed.err)

Builder_expiry(self, time) == [self EXCEPT !.attributes.expiry = AtUtc(time)]

Builder_secure(self, secure) ==
    IF self.scheme # None /\ secure /\ ~is_secure(self.scheme.val)
    THEN Builder_error(self, "InsecureOrigin")
    ELSE [self EXCEPT !.attributes.secure = secure]

Builder_http_only(self, http_only) ==
    IF self.scheme # None /\ http_only /\ ~is_http(self.scheme.val)
    THEN Builder_error(self, "NonHttpOrigin")
    ELSE [self EXCEPT !.attributes.http_only = http_only]

SetCookie(domain, path, attributes) ==
    [domain |-> domain, path |-> path, attributes |-> attributes]

Cookie(host, path, attributes) ==
    [host |-> host, path |-> path, attributes |-> attributes]

build_set_cookie(self) ==
    IF self.error # None THEN Err(self.error.val)
    ELSE IF self.host # None /\ self.host.val.kind = "Domain"
    THEN Ok(SetCookie(Some(self.host.val.name), self.path, self.attributes))
    ELSE IF self.host = None
    THEN Ok(SetCookie(None, self.path, self.attributes))
    ELSE Err("HostInvalid")

build_cookie(self) ==
    IF self.error # None THEN Err(self.error.val)
    ELSE IF self.host = None THEN Err("MissingDomain")
    ELSE IF self.path = None THEN Err("MissingDomain")
    ELSE Ok(Cookie(self.host.val, self.path.val, self.attributes))

\* The arms of the match in Builder::parse; state is the builder and
\* use_max_age, now is what now_utc() returns.
parse_arm_expires_always(state, argument, now) ==
    IF argument.kind = "Expires"
    THEN [state EXCEPT !.builder = Builder_expiry(@, argument.value)]
    ELSE IF argument.kind = "MaxAge"
    THEN [builder |-> Builder_expiry(state.builder, TmAdd(now, argument.value)),
          use_max_age |-> TRUE]
    ELSE IF argument.kind = "Domain"
    THEN [state EXCEPT !.builder = Builder_domain(@, argument.value)]
    ELSE IF argument.kind = "Path"
    THEN [state EXCEPT !.builder = Builder_path(@, argument.value)]
    ELSE IF argument.kind = "Secure"
    THEN [state EXCEPT !.builder = Builder_secure(@, TRUE)]
    ELSE IF argument.kind = "HttpOnly"
    THEN [state EXCEPT !.builder = Builder_http_only(@, TRUE)]
    ELSE state

parse_arm(state, argument, now) ==
    IF argument.kind = "Expires" /\ ~state.use_max_age
    THEN [state EXCEPT !.builder = Builder_expiry(@, argument.value)]
    ELSE IF argument.kind = "MaxAge"
    THEN [builder |-> Builder_expiry(state.builder, TmAdd(now, argument.value)),
          use_max_age |-> TRUE]
    ELSE IF argument.kind = "Domain"
    THEN [state EXCEPT !.builder = Builder_domain(@, argument.value)]
    ELSE IF argument.kind = "Path"
    THEN [state EXCEPT !.builder = Builder_path(@, argument.value)]
    ELSE IF argument.kind = "Secure"
    THEN [state EXCEPT !.builder = Builder_secure(@, TRUE)]
    ELSE IF argument.kind = "HttpOnly"
    THEN [state EXCEPT !.builder = Builder_http_only(@, TRUE)]
    ELSE state

\* The loop of Builder::parse over the ArgumentIter
RECURSIVE parse_loop(_, _, _)
parse_loop(state, remaining, now) ==
    CHOOSE result \in
        {IF ~IsOk(next.item) THEN next.item
         ELSE IF next.item.val = None THEN Ok(state.builder)
         ELSE parse_loop(parse_arm(state, next.item.val.val, now), next.remaining, now) :
            next \in {next_argument(remaining)}} : TRUE

\* Ok(builder), the error of the failing fragment, or a panic
Builder_parse(self, cookie, now) ==
    CHOOSE result \in
        {IF ~IsOk(processed) THEN processed
         ELSE parse_loop([builder |-> Builder_pair(self, processed.val[1]),
                          use_max_age |-> FALSE],
                         processed.val[2], now) :
            processed \in {process_cookie(cookie)}} : TRUE

SetCookie_parse(cookie, now) ==
    CHOOSE result \in
        {IF IsOk(builder) THEN build_set_cookie(builder.val) ELSE builder :
            builder \in {Builder_parse(BuilderDefault, cookie, now)}} : TRUE

Cookie_parse(set_cookie, origin, now) ==
    CHOOSE result \in
        {IF seeded = Panic THEN Panic
         ELSE CHOOSE built \in
                {IF IsOk(builder) THEN build_cookie(builder.val) ELSE builder :
                    builder \in {Builder_parse(seeded, set_cookie, now)}} : TRUE :
            seeded \in {Builder_origin(BuilderDefault, origin)}} : TRUE

DayNames == <<<<"S", "u", "n">>, <<"M", "o", "n">>, <<"T", "u", "e">>, <<"W", "e", "d">>, <<"T", "h", "u">>, <<"F", "r", "i">>, <<"S", "a", "t">>>>

MonthNames ==
    <<<<"J", "a", "n">>, <<"F", "e", "b">>, <<"M", "a", "r">>, <<"A", "p", "r">>, <<"M", "a", "y">>, <<"J", "u", "n">>,
      <<"J", "u", "l">>, <<"A", "u", "g">>, <<"S", "e", "p">>, <<"O", "c", "t">>, <<"N", "o", "v">>, <<"D", "e", "c">>>>

Digit(n) == Ascii[n + 17]

RECURSIVE NumText(_)
NumText(n) == IF n < 10 THEN <<Digit(n)>> ELSE NumText(n \div 10) \o <<Digit(n % 10)>>

Pad2(n) == IF n < 10 THEN <<"0">> \o NumText(n) ELSE NumText(n)

\* strftime("%a, %d %b %Y %T %z", time) for a year of the common era
strftime(time) ==
    DayNames[time.tm_wday + 1] \o <<",", " ">> \o Pad2(time.tm_mday) \o <<" ">>
        \o MonthNames[time.tm_mon + 1] \o <<" ">> \o NumText(time.tm_year + 1900) \o <<" ">>
        \o Pad2(time.tm_hour) \o <<":">> \o Pad2(time.tm_min) \o <<":">> \o Pad2(time.tm_sec)
        \o <<" ", "+", "0", "0", "0", "0">>

\* impl ToString for SetCookie
to_string(self) ==
    LET pair == PairAsStr(self.attributes.pair)
        path == IF self.path # None
                THEN pair \o <<";", " ", "P", "a", "t", "h", "=">> \o self.path.val ELSE pair
        domain == IF self.domain # None
                  THEN path \o <<";", " ", "D", "o", "m", "a", "i", "n", "=">> \o self.domain.val ELSE path
        secure == IF self.attributes.secure THEN domain \o <<";", " ", "S", "e", "c", "u", "r", "e">> ELSE domain
        http_only == IF self.attributes.http_only
                     THEN secure \o <<";", " ", "H", "t", "t", "p", "O", "n", "l", "y">> ELSE secure
    IN  IF self.attributes.expiry # Never
        THEN http_only \o <<";", " ", "E", "x", "p", "i", "r", "e", "s", "=">> \o strftime(self.attributes.expiry.time)
        ELSE http_only

----------------------------------------------------------------------------
(* The jar, src/jar.rs.  A trie is a function from the label (segment)     *)
(* sequences of its nodes, the root being <<>>, to what the node holds.    *)

EmptyMap == [x \in {} |-> x]

PathDefault == [node \in {<<>>} |-> EmptyMap]

DomainDefault == [node \in {<<>>} |-> PathDefault]

JarDefault == [domain |-> DomainDefault, hosts |-> EmptyMap]

\* An insertion that keeps the entry a key already has
MapKeep(map, key, value) ==
    [k \in DOMAIN map \cup {key} |-> IF k \in DOMAIN map THEN map[k] ELSE value]

\* HashMap::insert: the entry for the key is replaced.
MapInsert(map, key, value) ==
    [k \in DOMAIN map \cup {key} |-> IF k = key THEN value ELSE map[k]]

\* HashMap::entry(key).or_insert_with(default)
OrInsert(map, key, default) ==
    IF key \in DOMAIN map THEN map ELSE MapInsert(map, key, default)

RECURSIVE PathAddCookie(_, _, _, _)
PathAddCookie(path, node, segments, attributes) ==
    IF segments # <<>>
    THEN LET child == Append(node, Head(segments)) IN
         PathAddCookie(OrInsert(path, child, EmptyMap), child, Tail(segments), attributes)
    ELSE [path EXCEPT ![node] = MapInsert(@, PairName(attributes.pair).val, attributes)]

RECURSIVE DomainAddCookie(_, _, _, _, _)
DomainAddCookie(domain, node, segments, path, attributes) ==
    IF segments # <<>>
    THEN LET child == Append(node, segments[Len(segments)]) IN
         DomainAddCookie(OrInsert(domain, child, PathDefault), child,
                         Take(segments, Len(segments) - 1), path, attributes)
    ELSE [domain EXCEPT ![node] = PathAddCookie(@, <<>>, path, attributes)]

update_host(j, host, segments, attributes) ==
    [j EXCEPT !.hosts =
        LET hosts == OrInsert(@, host, PathDefault) IN
        [hosts EXCEPT ![host] = PathAddCookie(@, <<>>, segments, attributes)]]

\* An insertion that empties the jar first
add_cookie_alone(j, cookie) ==
    LET path_segments == Split(TrimLeftMatches(cookie.path, "/"), "/") IN
    IF cookie.host.kind = "Domain"
    THEN LET domain_segments == Split(TrimMatches(cookie.host.name, "."), ".") IN
         [JarDefault EXCEPT !.domain =
            DomainAddCookie(@, <<>>, domain_segments, path_segments, cookie.attributes)]
    ELSE update_host(JarDefault, cookie.host, path_segments, cookie.attributes)

add_cookie(j, cookie) ==
    LET path_segments == Split(TrimLeftMatches(cookie.path, "/"), "/") IN
    IF cookie.host.kind = "Domain"
    THEN LET domain_segments == Split(TrimMatches(cookie.host.name, "."), ".") IN
         [j EXCEPT !.domain =
            DomainAddCookie(@, <<>>, domain_segments, path_segments, cookie.attributes)]
    ELSE update_host(j, cookie.host, path_segments, cookie.attributes)

\* A reference to a pair held in the jar: the trie that holds it (a domain
\* node or an IP host), the path node and the cookie name.
Ref(owner, node, name) == [owner |-> owner, node |-> node, name |-> name]

\* A filter that lets every cookie through, whatever the kind of host match
filter_all(host, attributes) == TRUE

\* A filter that also holds back every cookie marked secure or http_only
filter_flags(host, attributes) ==
    /\ ~attributes.secure
    /\ ~attributes.http_only
    /\ (IF host = "Exact" THEN TRUE ELSE ~attributes.host_only)

\* The filter of Path::match_url
filter(host, attributes) ==
    IF host = "Exact" THEN TRUE ELSE ~attributes.host_only

RECURSIVE PathMatchUrl(_, _, _, _, _)
PathMatchUrl(path, owner, node, segments, host) ==
    LET iter == {Ref(owner, node, name) : name \in
                    {n \in DOMAIN path[node] : filter(host, path[node][n])}}
    IN  IF segments # <<>> /\ Append(node, Head(segments)) \in DOMAIN path
        THEN iter \cup PathMatchUrl(path, owner, Append(node, Head(segments)),
                                    Tail(segments), host)
        ELSE iter

RECURSIVE DomainMatchUrl(_, _, _, _)
DomainMatchUrl(domain, node, segments, path) ==
    IF segments # <<>>
    THEN LET iter == PathMatchUrl(domain[node], Domain(node), <<>>, path, "Suffix")
             child == Append(node, segments[Len(segments)])
         IN  IF child \in DOMAIN domain
             THEN iter \cup DomainMatchUrl(domain, child,
                                           Take(segments, Len(segments) - 1), path)
             ELSE iter
    ELSE PathMatchUrl(domain[node], Domain(node), <<>>, path, "Exact")

host_matches(j, host, segments) ==
    IF host \in DOMAIN j.hosts
    THEN PathMatchUrl(j.hosts[host], host, <<>>, segments, "Exact")
    ELSE {}

url_matches(j, u) ==
    LET dir == url_dir_path(u) IN
    IF ~IsOk(dir) THEN Panic
    ELSE LET path_segments == Split(TrimLeftMatches(dir.val, "/"), "/") IN
         IF u.host = None THEN Ok({})
         ELSE IF u.host.val.kind = "Domain"
         THEN Ok(DomainMatchUrl(j.domain, <<>>,
                    Split(TrimMatches(u.host.val.name, "."), "."), path_segments))
         ELSE Ok(host_matches(j, u.host.val, path_segments))

\* The attributes a reference points at.
Deref(j, ref) ==
    IF ref.owner.kind = "Domain"
    THEN j.domain[ref.owner.name][ref.node][ref.name]
    ELSE j.hosts[ref.owner][ref.node][ref.name]

----------------------------------------------------------------------------
(* The jar as a state machine: add_cookie and url_matches calls            *)

ExampleCom == <<"e", "x", "a", "m", "p", "l", "e", ".", "c", "o", "m">>

WwwExampleCom == <<"w", "w", "w", ".", "e", "x", "a", "m", "p", "l", "e", ".", "c", "o", "m">>

WwwExampleComDot == <<"w", "w", "w", ".", "e", "x", "a", "m", "p", "l", "e", ".", "c", "o", "m", ".">>

SubWwwExampleCom == <<"s", "u", "b", ".", "w", "w", "w", ".", "e", "x", "a", "m", "p", "l", "e", ".", "c", "o", "m">>

OtherExampleCom == <<"o", "t", "h", "e", "r", ".", "e", "x", "a", "m", "p", "l", "e", ".", "c", "o", "m">>

Addr10 == <<"1", "0", ".", "0", ".", "0", ".", "1">>

PathRoot == <<"/">>

PathEmpty == <<>>

PathTo == <<"/", "p", "a", "t", "h", "/", "t", "o", "/">>

PathToPage == <<"/", "p", "a", "t", "h", "/", "t", "o", "/", "p", "a", "g", "e", ".", "h", "t", "m", "l">>

PathToSubX == <<"/", "p", "a", "t", "h", "/", "t", "o", "/", "s", "u", "b", "/", "x">>

PathOther == <<"/", "p", "a", "t", "h", "/", "o", "t", "h", "e", "r">>

PairN1 == <<"n", "=", "1">>

PairN2 == <<"n", "=", "2">>

\* The number of add_cookie calls in a run.
MaxAdds == 2

\* Finalized cookies: what build_cookie returns for these hosts, paths and pairs.
\* An empty path is what the attribute "Path=" gives.
JarCookies ==
    {[host |-> h, path |-> p,
      attributes |-> [DefaultAttributes EXCEPT !.pair = from_bytes(pr).val,
                                               !.host_only = ho]] :
        h \in {Domain(ExampleCom), Domain(WwwExampleCom)},
        p \in {PathRoot, PathEmpty, PathTo},
        pr \in {PairN1, PairN2},
        ho \in BOOLEAN}
    \cup
    {[host |-> Ipv4(Addr10), path |-> PathRoot,
      attributes |-> [DefaultAttributes EXCEPT !.pair = from_bytes(PairN1).val]]}

\* Request URLs.  The last two are a URL without a host and a URL of a
\* non-special scheme, whose path is empty.
JarUrls ==
    {Url("http", Some(h), p) :
        h \in {Domain(ExampleCom), Domain(WwwExampleCom), Domain(WwwExampleComDot),
               Domain(SubWwwExampleCom), Domain(OtherExampleCom), Ipv4(Addr10)},
        p \in {PathRoot, PathToPage, PathToSubX, PathOther}}
    \cup {Url("file", None, PathToPage), Url("other", Some(Domain(ExampleCom)), <<>>)}

NoUrl == None

NoMatches == None

JarInit ==
    /\ jar = JarDefault
    /\ log = <<>>
    /\ url = NoUrl
    /\ matches = NoMatches

\* No builder is in use and no clock is read.
CookieIdle ==
    /\ draft = None
    /\ calls = <<>>
    /\ product = None
    /\ rendered = None
    /\ reparsed = None
    /\ clock = 0

\* No decoder is called on its own.
TextIdle ==
    /\ words = <<>>
    /\ input = <<>>
    /\ output = None

Init == JarInit /\ CookieIdle /\ TextIdle

\* Jar::add_cookie(&mut self).  The iterator a lookup returned borrows the
\* jar, so it has been dropped before the jar can be changed.
AddCookie(cookie) ==
    /\ url = NoUrl
    /\ Len(log) < MaxAdds
    /\ jar' = add_cookie(jar, cookie)
    /\ log' = Append(log, cookie)
    /\ UNCHANGED <<url, matches, cookieVars, textVars>>

\* Jar::url_matches(&self, url)
UrlMatches(u) ==
    /\ url = NoUrl
    /\ url' = Some(u)
    /\ matches' = url_matches(jar, u)
    /\ UNCHANGED <<jar, log, cookieVars, textVars>>

\* The caller drops the iterator url_matches returned.
DropMatches ==
    /\ url # NoUrl
    /\ url' = NoUrl
    /\ matches' = NoMatches
    /\ UNCHANGED <<jar, log, cookieVars, textVars>>

Next ==
    \/ \E cookie \in JarCookies : AddCookie(cookie)
    \/ \E u \in JarUrls : UrlMatches(u)
    \/ DropMatches

Spec == Init /\ [][Next]_vars

----------------------------------------------------------------------------
(* Claims about the jar                                                    *)

\* Where the jar keeps a cookie: the reference to its pair.
RefOf(cookie) ==
    Ref(IF cookie.host.kind = "Domain"
        THEN Domain(LET labels == Split(TrimMatches(cookie.host.name, "."), ".")
                    IN  [i \in 1..Len(labels) |-> labels[Len(labels) + 1 - i]])
        ELSE cookie.host,
        Split(TrimLeftMatches(cookie.path, "/"), "/"),
        PairName(cookie.attributes.pair).val)

\* The lookup has been made and returned.
Looked == url # NoUrl /\ IsOk(matches)

\* The cookie of the i-th add_cookie call is the one the jar holds at its place.
Held(i) ==
    /\ \A j \in (i + 1)..Len(log) : RefOf(log[j]) # RefOf(log[i])

\* RFC 6265 path-match of a request path against a cookie path.
PathMatch(request, cookie) ==
    /\ cookie # <<>>
    /\ \/ request = cookie
       \/ /\ StartsWith(request, cookie)
          /\ (cookie[Len(cookie)] = "/" \/ request[Len(cookie) + 1] = "/")

\* C1: a cookie stored with the path /path/to/ is returned for a request to
\* /path/to/page.html and to /path/to/sub/x on its host, and is not returned
\* for a request to /path/other.
C1_PathScoping ==
    \A i \in 1..Len(log) :
        (Looked /\ Held(i) /\ log[i].path = PathTo /\ url.val.host = Some(log[i].host)) =>
            /\ url.val.path = PathToPage => RefOf(log[i]) \in matches.val
            /\ url.val.path = PathToSubX => RefOf(log[i]) \in matches.val
            /\ url.val.path = PathOther => RefOf(log[i]) \notin matches.val

\* The same host: equal once leading and trailing dots are removed.
SameHost(a, b) ==
    /\ a.kind = b.kind
    /\ IF a.kind = "Domain"
       THEN TrimMatches(a.name, ".") = TrimMatches(b.name, ".")
       ELSE a.name = b.name

\* C2 as stated: a host-only cookie is never returned for a URL whose host
\* differs from the cookie's host.
C2_HostOnlyExactHostText ==
    \A i \in 1..Len(log) :
        (Looked /\ Held(i) /\ log[i].attributes.host_only
                /\ RefOf(log[i]) \in matches.val) =>
            url.val.host = Some(log[i].host)

\* C2, amended: a host-only cookie is never returned for a URL whose host,
\* leading and trailing dots removed, differs from the cookie's host with its
\* leading and trailing dots removed; not for a sibling host, not for a
\* subdomain, not for an IP address.
C2_HostOnlyExactHost ==
    \A i \in 1..Len(log) :
        (Looked /\ Held(i) /\ log[i].attributes.host_only
                /\ RefOf(log[i]) \in matches.val) =>
            url.val.host # None /\ SameHost(url.val.host.val, log[i].host)

\* A lookup on a subdomain of www.example.com, path matching, has left out the
\* host-only cookie of www.example.com and returned a suffix cookie.
C2_Witness ==
    /\ Looked
    /\ url.val.host = Some(Domain(SubWwwExampleCom))
    /\ \E i \in 1..Len(log) :
          /\ Held(i) /\ log[i].attributes.host_only
          /\ log[i].host = Domain(WwwExampleCom)
          /\ log[i].path = PathTo /\ url.val.path = PathToPage
          /\ RefOf(log[i]) \notin matches.val
    /\ matches.val # {}

\* labels of a is the labels of b, or ends with them after a dot
DomainMatch(a, b) ==
    LET la == Split(TrimMatches(a, "."), ".")
        lb == Split(TrimMatches(b, "."), ".")
    IN  Len(la) >= Len(lb) /\ SubSeq(la, Len(la) - Len(lb) + 1, Len(la)) = lb

\* C3: a suffix cookie is returned for the named domain and for every
\* subdomain at any depth whenever the request path matches the cookie path.
C3_SuffixMatchesSubdomains ==
    \A i \in 1..Len(log) :
        (Looked /\ Held(i) /\ ~log[i].attributes.host_only
                /\ log[i].host.kind = "Domain"
                /\ url.val.host # None /\ url.val.host.val.kind = "Domain"
                /\ DomainMatch(url.val.host.val.name, log[i].host.name)
                /\ PathMatch(url.val.path, log[i].path)) =>
            RefOf(log[i]) \in matches.val

\* The (domain-or-host, path, name) triple of a cookie, as written.
Triple(cookie) == <<cookie.host, cookie.path, PairName(cookie.attributes.pair).val>>

\* The same triple once hosts are compared without leading and trailing dots
\* and paths without leading slashes.
SameTriple(a, b) ==
    /\ SameHost(a.host, b.host)
    /\ TrimLeftMatches(a.path, "/") = TrimLeftMatches(b.path, "/")
    /\ PairName(a.attributes.pair) = PairName(b.attributes.pair)

\* What the jar holds at the place of a cookie: a set of attributes.
StoredAt(ref) ==
    IF ref.owner.kind = "Domain"
    THEN IF ref.owner.name \in DOMAIN jar.domain
            /\ ref.node \in DOMAIN jar.domain[ref.owner.name]
            /\ ref.name \in DOMAIN jar.domain[ref.owner.name][ref.node]
         THEN {jar.domain[ref.owner.name][ref.node][ref.name]}
         ELSE {}
    ELSE IF ref.owner \in DOMAIN jar.hosts
            /\ ref.node \in DOMAIN jar.hosts[ref.owner]
            /\ ref.name \in DOMAIN jar.hosts[ref.owner][ref.node]
         THEN {jar.hosts[ref.owner][ref.node][ref.name]}
         ELSE {}

\* C4 as stated: for every triple the jar holds exactly the cookie inserted
\* last for that triple, and a lookup returns that value.
C4_LastPerTripleText ==
    \A i \in 1..Len(log) :
        (\A j \in (i + 1)..Len(log) : Triple(log[j]) # Triple(log[i])) =>
            /\ StoredAt(RefOf(log[i])) = {log[i].attributes}
            /\ (Looked /\ RefOf(log[i]) \in matches.val) =>
                   Deref(jar, RefOf(log[i])).pair = log[i].attributes.pair

\* C4, amended: for every triple, hosts compared without leading and trailing
\* dots and paths without leading slashes, the jar holds exactly the cookie
\* inserted last for that triple, and a lookup returns that value.
C4_LastPerTriple ==
    \A i \in 1..Len(log) :
        (\A j \in (i + 1)..Len(log) : ~SameTriple(log[j], log[i])) =>
            /\ StoredAt(RefOf(log[i])) = {log[i].attributes}
            /\ (Looked /\ RefOf(log[i]) \in matches.val) =>
                   Deref(jar, RefOf(log[i])).pair = log[i].attributes.pair

\* n=1 was stored for a triple, n=2 was then inserted for the same triple, and
\* a lookup has returned the cookie.
C4_Witness ==
    /\ Looked
    /\ Len(log) = 2
    /\ Triple(log[1]) = Triple(log[2])
    /\ log[1].attributes.pair.pair = PairN1
    /\ log[2].attributes.pair.pair = PairN2
    /\ RefOf(log[2]) \in matches.val

----------------------------------------------------------------------------
(* The builder and the header parsers as a state machine: a caller chains  *)
(* builder methods and finalizes, or hands a header to SetCookie::parse or  *)
(* Cookie::parse, and may render and parse again what came out.             *)

MaxCalls == 3

MaxArgs == 3

MaxTicks == 1

ExampleComUpper == <<"E", "x", "a", "m", "p", "l", "e", ".", "C", "O", "M">>

PathX == <<"/", "x">>

PathSemi == <<"/", "a", ";", "b">>

PairAB == <<"a", "=", "b">>

PairSemi == <<"a", "=", "b", ";", "x">>

OriginHttp == Url("http", Some(Domain(ExampleCom)), PathRoot)

OriginHttps == Url("https", Some(Domain(ExampleCom)), PathToPage)

OriginHttpsIp == Url("https", Some(Ipv4(Addr10)), PathRoot)

OriginFile == Url("file", None, PathToPage)

NoOrigin == Url("", None, <<>>)

Origins == {OriginHttp, OriginHttps, OriginHttpsIp, OriginFile}

Call(method, text, flag, origin) ==
    [method |-> method, text |-> text, flag |-> flag, origin |-> origin]

BuilderCalls ==
    {Call("origin", <<>>, FALSE, u) : u \in Origins}
        \cup {Call("domain", d, FALSE, NoOrigin) : d \in {ExampleComUpper, Addr10}}
        \cup {Call("path", p, FALSE, NoOrigin) : p \in {PathX, PathSemi}}
        \cup {Call("pair_str", p, FALSE, NoOrigin) : p \in {PairAB, PairSemi}}
        \cup {Call("secure", <<>>, b, NoOrigin) : b \in BOOLEAN}
        \cup {Call("http_only", <<>>, TRUE, NoOrigin)}

\* The builder a call returns
Apply(self, call) ==
    IF call.method = "origin" THEN Builder_origin(self, call.origin)
    ELSE IF call.method = "domain" THEN Builder_domain(self, call.text)
    ELSE IF call.method = "path" THEN Builder_path(self, call.text)
    ELSE IF call.method = "pair_str" THEN Builder_pair_str(self, call.text)
    ELSE IF call.method = "secure" THEN Builder_secure(self, call.flag)
    ELSE Builder_http_only(self, call.flag)

ExpiresT1 == <<"E", "x", "p", "i", "r", "e", "s", "=", "S", "u", "n", ",", " ", "0", "6", " ", "N", "o", "v", " ", "1", "9", "9", "4", " ", "0", "8", ":", "4", "9", ":", "3", "7", " ", "G", "M", "T">>

ExpiresT2 == <<"E", "x", "p", "i", "r", "e", "s", "=", "W", "e", "d", ",", " ", "0", "9", " ", "J", "u", "n", " ", "2", "0", "2", "1", " ", "1", "0", ":", "1", "8", ":", "1", "4", " ", "G", "M", "T">>

MaxAge10 == <<"M", "a", "x", "-", "A", "g", "e", "=", "1", "0">>

MaxAgeMinus5 == <<"M", "a", "x", "-", "A", "g", "e", "=", "-", "5">>

HeaderArgs ==
    {ExpiresT1, ExpiresT2, MaxAge10, MaxAgeMinus5,
     PathPrefix \o PathX, DomainPrefix \o ExampleCom, SecureText, HttpOnlyText}

SeqsUpTo(S, n) == UNION {[1..k -> S] : k \in 0..n}

RECURSIVE Header(_, _)
Header(pair, args) ==
    IF args = <<>> THEN pair
    ELSE Header(pair \o Separator \o Head(args), Tail(args))

Product(kind, value, args, origin) ==
    [kind |-> kind, result |-> value, at |-> clock, args |-> args, origin |-> origin]

CookieInit ==
    /\ draft = BuilderDefault
    /\ calls = <<>>
    /\ product = None
    /\ rendered = None
    /\ reparsed = None
    /\ clock = 55

\* One of the chained builder methods
CallBuilder(call) ==
    /\ draft \notin {None, Panic}
    /\ product = None
    /\ Len(calls) < MaxCalls
    /\ draft' = Apply(draft, call)
    /\ calls' = Append(calls, call)
    /\ UNCHANGED <<product, rendered, reparsed, clock, jarVars, textVars>>

\* Builder::build_set_cookie(self): the builder is moved into the call.
BuildSetCookie ==
    /\ draft \notin {None, Panic}
    /\ product = None
    /\ product' = Some(Product("build_set_cookie", build_set_cookie(draft), <<>>, NoOrigin))
    /\ draft' = None
    /\ UNCHANGED <<calls, rendered, reparsed, clock, jarVars, textVars>>

\* Builder::build_cookie(self)
BuildCookie ==
    /\ draft \notin {None, Panic}
    /\ product = None
    /\ product' = Some(Product("build_cookie", build_cookie(draft), <<>>, NoOrigin))
    /\ draft' = None
    /\ UNCHANGED <<calls, rendered, reparsed, clock, jarVars, textVars>>

\* SetCookie::parse(cookie)
ParseSetCookie ==
    /\ product = None
    /\ calls = <<>>
    /\ \E args \in SeqsUpTo(HeaderArgs, MaxArgs) :
          product' = Some(Product("SetCookie_parse",
                                  SetCookie_parse(Header(PairAB, args), at_utc(clock)),
                                  args, NoOrigin))
    /\ draft' = None
    /\ UNCHANGED <<calls, rendered, reparsed, clock, jarVars, textVars>>

\* Cookie::parse(set_cookie, origin)
ParseCookie ==
    /\ product = None
    /\ calls = <<>>
    /\ \E args \in SeqsUpTo(HeaderArgs, MaxArgs), origin \in Origins :
          product' = Some(Product("Cookie_parse",
                                  Cookie_parse(Header(PairAB, args), origin, at_utc(clock)),
                                  args, origin))
    /\ draft' = None
    /\ UNCHANGED <<calls, rendered, reparsed, clock, jarVars, textVars>>

IsSetCookie(p) ==
    /\ p # None
    /\ p.val.kind \in {"build_set_cookie", "SetCookie_parse"}
    /\ IsOk(p.val.result)

\* SetCookie::to_string(&self)
Render ==
    /\ IsSetCookie(product)
    /\ rendered = None
    /\ rendered' = Some(to_string(product.val.result.val))
    /\ UNCHANGED <<draft, calls, product, reparsed, clock, jarVars, textVars>>

\* SetCookie::parse of the rendered text
Reparse ==
    /\ rendered # None
    /\ reparsed = None
    /\ reparsed' = Some(SetCookie_parse(rendered.val, at_utc(clock)))
    /\ UNCHANGED <<draft, calls, product, rendered, clock, jarVars, textVars>>

\* A second passes.
Tick ==
    /\ clock < 55 + MaxTicks
    /\ clock' = clock + 1
    /\ UNCHANGED <<draft, calls, product, rendered, reparsed, jarVars, textVars>>

InitCookie == CookieInit /\ JarInit /\ TextIdle

NextCookie ==
    \/ \E call \in BuilderCalls : CallBuilder(call)
    \/ BuildSetCookie
    \/ BuildCookie
    \/ ParseSetCookie
    \/ ParseCookie
    \/ Render
    \/ Reparse
    \/ Tick

SpecCookie == InitCookie /\ [][NextCookie]_vars

----------------------------------------------------------------------------
(* Claims about the builder and the header parsers                         *)

Parsed == product # None /\ product.val.kind \in {"SetCookie_parse", "Cookie_parse"}

Built == product # None /\ product.val.kind \in {"build_set_cookie", "build_cookie"}

IsMaxAge(arg) == arg \in {MaxAge10, MaxAgeMinus5}

Seconds(arg) == IF arg = MaxAge10 THEN 10 ELSE 0 - 5

\* The seconds of the last Max-Age attribute of a header
LastMaxAge(args) ==
    LET last == CHOOSE i \in 1..Len(args) :
                    IsMaxAge(args[i]) /\ \A j \in (i + 1)..Len(args) : ~IsMaxAge(args[j])
    IN  Seconds(args[last])

\* C5: when a header that parses carries a Max-Age attribute, the expiry of
\* the parsed cookie is the instant of the parse plus the seconds of that
\* attribute (of the last one, if there are several), wherever Expires
\* attributes stand in the header.
C5_MaxAgeWins ==
    (/\ Parsed
     /\ IsOk(product.val.result)
     /\ \E i \in 1..Len(product.val.args) : IsMaxAge(product.val.args[i]))
        => product.val.result.val.attributes.expiry
               = AtUtc(at_utc(product.val.at + LastMaxAge(product.val.args)))

\* An Expires attribute follows the Max-Age attribute and the expiry is ten
\* seconds after the parse.
C5_Witness ==
    /\ Parsed
    /\ product.val.args = <<MaxAge10, ExpiresT1>>
    /\ IsOk(product.val.result)
    /\ product.val.result.val.attributes.expiry = AtUtc(at_utc(product.val.at + 10))

SecureTrue == Call("secure", <<>>, TRUE, NoOrigin)

\* C6: a builder seeded by origin(u), u having a host, and then given
\* secure(true) finalizes to InsecureOrigin when the scheme of u is not https,
\* whatever is called afterwards; when the scheme is https and nothing else is
\* called, build_cookie succeeds with secure = true, and so does
\* build_set_cookie for a host that is a domain name.
C6_SecureNeedsTls ==
    (/\ Built
     /\ Len(calls) >= 2
     /\ calls[1].method = "origin"
     /\ calls[1].origin.host # None
     /\ calls[2] = SecureTrue)
        => IF calls[1].origin.scheme = "https"
           THEN (/\ Len(calls) = 2
                 /\ \/ product.val.kind = "build_cookie"
                    \/ calls[1].origin.host.val.kind = "Domain")
                    => /\ IsOk(product.val.result)
                       /\ product.val.result.val.attributes.secure
           ELSE product.val.result = Err("InsecureOrigin")

\* origin(http://example.com/) and secure(true) were called and the finalizer
\* returned InsecureOrigin.
C6_Witness ==
    /\ Built
    /\ calls = <<Call("origin", <<>>, FALSE, OriginHttp), SecureTrue>>
    /\ product.val.result = Err("InsecureOrigin")

\* C8: a SetCookie built only from pair_str, path, domain, secure and
\* http_only calls, rendered with to_string and parsed again, gives a
\* SetCookie with the same pair, path, domain, secure, http_only and
\* host_only.
C8_RoundTrip ==
    (/\ product # None
     /\ product.val.kind = "build_set_cookie"
     /\ IsOk(product.val.result)
     /\ \A i \in 1..Len(calls) :
            calls[i].method \in {"pair_str", "path", "domain", "secure", "http_only"}
     /\ \E i \in 1..Len(calls) : calls[i].method = "pair_str"
     /\ reparsed # None)
        => /\ IsOk(reparsed.val)
           /\ LET x == product.val.result.val
                  y == reparsed.val.val
              IN  /\ y.attributes.pair = x.attributes.pair
                  /\ y.path = x.path
                  /\ y.domain = x.domain
                  /\ y.attributes.secure = x.attributes.secure
                  /\ y.attributes.http_only = x.attributes.http_only
                  /\ y.attributes.host_only = x.attributes.host_only

----------------------------------------------------------------------------
(* The pair decoder on its own: a text is decoded and its parts are read   *)

MaxPairLen == 7

PairBytes == {"a", "=", "\"", " "}

InitPair ==
    /\ input \in SeqsUpTo(PairBytes, MaxPairLen)
    /\ words = <<>>
    /\ output = None
    /\ JarInit
    /\ CookieIdle

\* CookiePair::from_str(source)
FromStr ==
    /\ output = None
    /\ output' = Some([pair |-> from_bytes(input), tuple |-> None])
    /\ UNCHANGED <<words, input, jarVars, cookieVars>>

\* CookiePair::as_tuple(&self): name() and value()
AsTuple ==
    /\ output # None
    /\ IsOk(output.val.pair)
    /\ output.val.tuple = None
    /\ output' = Some([output.val EXCEPT !.tuple =
                        Some(<<PairName(output.val.pair.val), PairValue(output.val.pair.val)>>)])
    /\ UNCHANGED <<words, input, jarVars, cookieVars>>

NextPair == FromStr \/ AsTuple

SpecPair == InitPair /\ [][NextPair]_vars

\* text is a name of n token bytes, '=' and a value between double quotes
IsQuotedPair(text, n) ==
    /\ n >= 1
    /\ Len(text) >= n + 3
    /\ \A i \in 1..n : text[i] = "a"
    /\ text[n + 1] = "="
    /\ text[n + 2] = "\""
    /\ text[Len(text)] = "\""
    /\ \A i \in (n + 3)..(Len(text) - 1) : text[i] \in {"a", " "}

\* C7: a pair whose value stands between double quotes is accepted; the pair
\* text is the whole source, quotes included, and value() returns the text
\* between the quotes.
C7_QuotedValueAccepted ==
    \A n \in 1..MaxPairLen :
        (IsQuotedPair(input, n) /\ output # None)
            => /\ IsOk(output.val.pair)
               /\ PairAsStr(output.val.pair.val) = input
               /\ output.val.tuple # None
                    => output.val.tuple.val[2] = Ok(SubSeq(input, n + 3, Len(input) - 1))

----------------------------------------------------------------------------
(* The cookie-date parser on its own: a date text is joined from tokens    *)
(* and words and parsed                                                      *)

TimeToken == <<"0", "8", ":", "4", "9", ":", "3", "7">>

DayTokens == {<<"0", "6">>, <<"6">>}

MonthToken == <<"N", "o", "v">>

Year1994 == <<"1", "9", "9", "4">>

Year94 == <<"9", "4">>

YearTokens == {Year1994, Year94}

LeadWords == {<<>>, <<"S", "u", "n">>, <<"S", "u", "n", "d", "a", "y">>}

TrailWords == {<<>>, <<"G", "M", "T">>}

Delimiters == {<<" ">>, <<",", " ">>, <<"-">>, <<" ", " ">>}

Orders == {order \in [1..4 -> 1..4] : \A i, j \in 1..4 : order[i] = order[j] => i = j}

RECURSIVE Join(_, _)
Join(list, delimiter) ==
    IF Len(list) = 0 THEN <<>>
    ELSE IF Len(list) = 1 THEN list[1]
    ELSE list[1] \o delimiter \o Join(Tail(list), delimiter)

Word(word) == IF word = <<>> THEN <<>> ELSE <<word>>

InitDate ==
    /\ \E order \in Orders, day \in DayTokens, year \in YearTokens,
          lead \in LeadWords, trail \in TrailWords, delimiter \in Delimiters :
          LET fields == <<TimeToken, day, MonthToken, year>> IN
          /\ words = Word(lead) \o [i \in 1..4 |-> fields[order[i]]] \o Word(trail)
          /\ input = Join(words, delimiter)
    /\ output = None
    /\ JarInit
    /\ CookieIdle

\* date::parse(source)
ParseDate ==
    /\ output = None
    /\ output' = Some(date_parse(input))
    /\ UNCHANGED <<words, input, jarVars, cookieVars>>

NextDate == ParseDate

SpecDate == InitDate /\ [][NextDate]_vars

\* 1994-11-06 08:49:37 as Date::into_time builds it
Nov6 == Tm(37, 49, 8, 6, 10, 94)

Position(list, set) == CHOOSE i \in 1..Len(list) : list[i] \in set

----------------------------------------------------------------------------
(* The year decoder on its own                                             *)

MaxYearLen == 4

YearDigits == {"0", "1", "4", "6", "7", "9"}

InitYear ==
    /\ input \in SeqsUpTo(YearDigits, MaxYearLen)
    /\ words = <<>>
    /\ output = None
    /\ JarInit
    /\ CookieIdle

\* decode_year(token)
DecodeYear ==
    /\ output = None
    /\ output' = Some(decode_year(input))
    /\ UNCHANGED <<words, input, jarVars, cookieVars>>

NextYear == DecodeYear

SpecYear == InitYear /\ [][NextYear]_vars

RECURSIVE Numeral(_)
Numeral(digits) ==
    IF digits = <<>> THEN 0
    ELSE 10 * Numeral(Take(digits, Len(digits) - 1)) + (Ord(digits[Len(digits)]) - 48)

----------------------------------------------------------------------------
(* The final validation of a cookie-date: a text of one time, one day, one *)
(* month and one four-digit year token is parsed                           *)

CalendarHours == {<<"0", "8">>, <<"2", "3">>, <<"2", "4">>}

CalendarMinutes == {<<"4", "9">>, <<"6", "0">>, <<"9", "9">>}

CalendarSeconds == {<<"3", "7">>, <<"6", "0">>}

CalendarTimes ==
    {hour \o <<":">> \o minute \o <<":">> \o second :
        hour \in CalendarHours, minute \in CalendarMinutes, second \in CalendarSeconds}

CalendarDays == {<<"2", "8">>, <<"2", "9">>, <<"3", "0">>}

Feb == <<"F", "e", "b">>

CalendarMonths == {Feb, MonthToken}

CalendarYears ==
    {<<"1", "9", "0", "0">>, <<"1", "9", "9", "6">>, <<"2", "0", "0", "0">>,
     <<"2", "0", "3", "1">>, <<"2", "0", "3", "2">>, <<"2", "1", "0", "0">>}

InitCalendar ==
    /\ \E time \in CalendarTimes, day \in CalendarDays,
          month \in CalendarMonths, year \in CalendarYears :
          /\ words = <<time, day, month, year>>
          /\ input = Join(words, <<" ">>)
    /\ output = None
    /\ JarInit
    /\ CookieIdle

NextCalendar == ParseDate

SpecCalendar == InitCalendar /\ [][NextCalendar]_vars

\* The hour, minute and second written in a time token hh:mm:ss
Written(time) ==
    [hour |-> Numeral(SubSeq(time, 1, 2)),
     minute |-> Numeral(SubSeq(time, 4, 5)),
     second |-> Numeral(SubSeq(time, 7, 8))]

TimeInRange(time) ==
    /\ Written(time).hour < 24
    /\ Written(time).minute < 60
    /\ Written(time).second < 60

\* The leap years of the calendar
LeapYear(year) == year % 400 = 0 \/ (year % 4 = 0 /\ year % 100 # 0)

\* C11: a date of 29 February with a time in range is accepted exactly when
\* its calendar year is divisible by 400, or by 4 and not by 100, and fails
\* with InvalidDate otherwise.
C11_LeapDay ==
    (/\ output # None
     /\ words[2] = <<"2", "9">>
     /\ words[3] = Feb
     /\ TimeInRange(words[1]))
        => IF LeapYear(Numeral(words[4]))
           THEN IsOk(output.val)
           ELSE output.val = Err("InvalidDate")

\* C19: a date whose time token has seconds or minutes of 60 or more, or
\* hours of 24 or more, fails with InvalidDate, and every date that parses
\* has seconds and minutes in 0..59 and hours in 0..23.
C19_TimeRange ==
    output # None =>
        /\ ~TimeInRange(words[1]) => output.val = Err("InvalidDate")
        /\ IsOk(output.val) =>
              /\ output.val.val.tm_sec \in 0..59
              /\ output.val.val.tm_min \in 0..59
              /\ output.val.val.tm_hour \in 0..23

----------------------------------------------------------------------------
(* Header texts handed to the two parsers: a pair followed by parts, each  *)
(* part a separator (well-formed or not) and a fragment                    *)

MaxParts == 2

PairA == <<"a">>

HeaderPairs == {PairAB, PairA}

MaxAgeX == MaxAgePrefix \o <<"x">>

ExpiresNov == ExpiresPrefix \o MonthToken

Expires199 == ExpiresPrefix \o <<"1", "9", "9">>

Expires375 == ExpiresPrefix \o <<"0", "8", ":", "4", "9", ":", "3", "7", "5">>

HeaderFragments ==
    {SecureText, PathPrefix \o PathX, MaxAge10, MaxAgeX,
     ExpiresT1, ExpiresNov, Expires199, Expires375}

BadSeparator == <<";">>

HeaderParts ==
    {separator \o fragment :
        separator \in {Separator, BadSeparator}, fragment \in HeaderFragments}

RECURSIVE Concat(_)
Concat(list) == IF list = <<>> THEN <<>> ELSE Head(list) \o Concat(Tail(list))

HeaderCall(kind, value) == [kind |-> kind, result |-> value]

InitHeader ==
    /\ \E pair \in HeaderPairs, parts \in SeqsUpTo(HeaderParts, MaxParts) :
          /\ words = <<pair>> \o parts
          /\ input = Concat(words)
    /\ output = None
    /\ JarInit
    /\ CookieIdle

\* SetCookie::parse(cookie) of the header text
ParseHeaderSetCookie ==
    /\ output = None
    /\ output' = Some(HeaderCall("SetCookie_parse", SetCookie_parse(input, at_utc(clock))))
    /\ UNCHANGED <<words, input, jarVars, cookieVars>>

\* Cookie::parse(set_cookie, origin) of the header text
ParseHeaderCookie ==
    /\ output = None
    /\ output' = Some(HeaderCall("Cookie_parse",
                                 Cookie_parse(input, OriginHttps, at_utc(clock))))
    /\ UNCHANGED <<words, input, jarVars, cookieVars>>

NextHeader == ParseHeaderSetCookie \/ ParseHeaderCookie

SpecHeader == InitHeader /\ [][NextHeader]_vars

\* C12: parsing a header ends by returning a value or an error value: no
\* header text makes SetCookie::parse or Cookie::parse panic.
C12_NoPanic == output # None => output.val.result # Panic

\* The fragments that do not decode: a Max-Age that is no number and Expires
\* dates that are no dates
Undecodable == {MaxAgeX, ExpiresNov, Expires199, Expires375}

PartFails(part) == Take(part, 2) # Separator \/ Drop(part, 2) \in Undecodable

\* The parts of a header text that fail to decode; the pair is part 1.
Failing(list) ==
    {i \in 1..Len(list) : IF i = 1 THEN list[1] = PairA ELSE PartFails(list[i])}

\* The error the spec gives a failing part where it names one
ErrorOf(i, part) ==
    IF i = 1 \/ Take(part, 2) # Separator THEN {Err("MissingDelimiter")}
    ELSE IF Drop(part, 2) = MaxAgeX THEN {Err("ParseInt")}
    ELSE {Err("InvalidDate"), Err("IncompleteDate")}

\* C16: when the pair or a part of the header fails to decode, both parsers
\* return the error of the first failing part and no cookie, whatever parts
\* stand before or after it.
C16_ParseErrorFatal ==
    (output # None /\ Failing(words) # {}) =>
        LET first == CHOOSE i \in Failing(words) : \A j \in Failing(words) : i <= j
        IN  output.val.result \in ErrorOf(first, words[first])

----------------------------------------------------------------------------
(* The jar never fails                                                     *)

\* C13: add_cookie returns normally for every finalized cookie and
\* url_matches returns normally for every URL, also for a URL without a host
\* and for a URL whose path holds no '/', in any state of the jar.
C13_JarTotal == url # NoUrl => matches # Panic

----------------------------------------------------------------------------
(* The jar and the passing of time: cookies with an expiry time are        *)
(* inserted and looked up while the clock runs                             *)

\* The instant the runs start at, and the expiry times: before it and at it
StartOfRun == at_utc(55)

ExpiryTimes == {Never, AtUtc(at_utc(10)), AtUtc(StartOfRun)}

KeptCookies ==
    {[host |-> Domain(ExampleCom), path |-> p,
      attributes |-> [DefaultAttributes EXCEPT !.pair = from_bytes(pr).val,
                                               !.host_only = FALSE,
                                               !.expiry = e]] :
        p \in {PathRoot, PathTo}, pr \in {PairN1, PairN2}, e \in ExpiryTimes}

KeptUrls ==
    {Url("http", Some(Domain(h)), p) :
        h \in {ExampleCom, WwwExampleCom}, p \in {PathRoot, PathToPage, PathToSubX}}

InitKeep ==
    /\ JarInit
    /\ TextIdle
    /\ draft = None
    /\ calls = <<>>
    /\ product = None
    /\ rendered = None
    /\ reparsed = None
    /\ clock = 55

NextKeep ==
    \/ \E cookie \in KeptCookies : AddCookie(cookie)
    \/ \E u \in KeptUrls : UrlMatches(u)
    \/ DropMatches
    \/ Tick

SpecKeep == InitKeep /\ [][NextKeep]_vars

\* The cookie is expired: its expiry time is at or before the current time.
IsExpired(attributes) ==
    /\ attributes.expiry # Never
    /\ to_timespec(attributes.expiry.time) <= clock

\* C17: every inserted cookie whose triple was not inserted again is still
\* stored with its value, and a lookup for a URL whose host domain-matches
\* and whose path path-matches returns it, whether or not it is expired.
C17_NeverDrops ==
    \A i \in 1..Len(log) :
        Held(i) =>
            /\ StoredAt(RefOf(log[i])) = {log[i].attributes}
            /\ (/\ Looked
                /\ DomainMatch(url.val.host.val.name, log[i].host.name)
                /\ PathMatch(url.val.path, log[i].path))
                  => RefOf(log[i]) \in matches.val

----------------------------------------------------------------------------
(* Further claims about the builder and Cookie::parse                      *)

\* The builder the chained calls have made
RECURSIVE Chained(_, _)
Chained(self, list) ==
    IF list = <<>> THEN self ELSE Chained(Apply(self, Head(list)), Tail(list))

\* C14: build_set_cookie succeeds for every builder that has no recorded
\* error, whatever host and path were set.
C14_SetCookieNeedsNoHost ==
    (/\ product # None
     /\ product.val.kind = "build_set_cookie"
     /\ Chained(BuilderDefault, calls).error = None)
        => IsOk(product.val.result)

\* C15: every finalized Cookie whose host is an IP literal has
\* host_only = true.
C15_IpHostOnly ==
    (/\ product # None
     /\ product.val.kind \in {"build_cookie", "Cookie_parse"}
     /\ IsOk(product.val.result)
     /\ product.val.result.val.host.kind = "Ipv4")
        => product.val.result.val.attributes.host_only

IsDomainArg(arg) == StartsWith(arg, DomainPrefix)

IsPathArg(arg) == StartsWith(arg, PathPrefix)

\* The last attribute of a kind in a header, without its prefix
LastArg(args, prefix) ==
    LET last == CHOOSE i \in 1..Len(args) :
                    /\ StartsWith(args[i], prefix)
                    /\ \A j \in (i + 1)..Len(args) : ~StartsWith(args[j], prefix)
    IN  Drop(args[last], Len(prefix))

\* The directory of a path: up to and including its last '/'
DirOf(path) == Take(path, RFind(path, "/"))

\* C18: a Cookie parsed from a header of origin u has the host of u and
\* host_only = true when the header has no Domain attribute, and the host of
\* the Domain attribute and host_only = false when it has one; its path is
\* the directory of the path of u when the header has no Path attribute and
\* the path of the Path attribute when it has one.
C18_OriginDefaults ==
    (/\ product # None
     /\ product.val.kind = "Cookie_parse"
     /\ IsOk(product.val.result))
        => LET args == product.val.args
               origin == product.val.origin
               cookie == product.val.result.val
           IN  /\ IF \E i \in 1..Len(args) : IsDomainArg(args[i])
                  THEN /\ cookie.host = Domain(LastArg(args, DomainPrefix))
                       /\ ~cookie.attributes.host_only
                  ELSE /\ Some(cookie.host) = origin.host
                       /\ cookie.attributes.host_only
               /\ IF \E i \in 1..Len(args) : IsPathArg(args[i])
                  THEN cookie.path = LastArg(args, PathPrefix)
                  ELSE cookie.path = DirOf(origin.path)

\* A header with a Domain attribute and no Path attribute was parsed from
\* https://example.com/path/to/page.html.
C18_Witness ==
    /\ product # None
    /\ product.val.kind = "Cookie_parse"
    /\ product.val.origin = OriginHttps
    /\ product.val.args = <<DomainPrefix \o ExampleCom>>
    /\ IsOk(product.val.result)
    /\ product.val.result.val.path = PathTo
    /\ ~product.val.result.val.attributes.host_only

----------------------------------------------------------------------------
(* The attribute iterator on its own: ArgumentIter::new on what follows    *)
(* the pair of a header, then next() again and again                       *)

MaxNexts == 3

IterParts ==
    {separator \o fragment :
        separator \in {Separator, BadSeparator},
        fragment \in {SecureText, PathPrefix \o PathX, MaxAge10, MaxAgeX, ExpiresNov}}

\* ArgumentIter::new(source)
ArgumentIterNew(source) == [remaining |-> source]

\* Iterator::next of ArgumentIter: the iterator afterwards and the item,
\* None at the end of the sequence, Some(Ok(argument)) or Some(Err(error)).
ArgumentIterNext(self) ==
    CHOOSE result \in
        {[iter |-> [remaining |-> next.remaining],
          item |-> IF IsOk(next.item)
                   THEN IF next.item.val = None THEN None ELSE Some(Ok(next.item.val.val))
                   ELSE Some(next.item)] :
            next \in {next_argument(self.remaining)}} : TRUE

InitArgs ==
    /\ words \in SeqsUpTo(IterParts, MaxParts)
    /\ input = Concat(words)
    /\ output = Some([iter |-> ArgumentIterNew(input), items |-> <<>>])
    /\ JarInit
    /\ CookieIdle

\* One more call of next() on the iterator
NextItem ==
    /\ Len(output.val.items) < MaxNexts
    /\ \E next \in {ArgumentIterNext(output.val.iter)} :
          output' = Some([iter |-> next.iter,
                          items |-> Append(output.val.items, next.item)])
    /\ UNCHANGED <<words, input, jarVars, cookieVars>>

NextArgs == NextItem

SpecArgs == InitArgs /\ [][NextArgs]_vars

IsErrorItem(item) == item # None /\ ~IsOk(item.val)

\* C20: the iterator yields the attributes in header order and stops at the
\* first decoding error: after an error item every later next() returns the
\* end of the sequence.
C20_StopsAtError ==
    LET items == output.val.items IN
    /\ \A i \in 1..Len(items) :
          (/\ i <= Len(words)
           /\ \A j \in 1..i : ~PartFails(words[j]))
              => items[i] = Some(decode(Drop(words[i], 2)))
    /\ \A i, j \in 1..Len(items) :
          (i < j /\ IsErrorItem(items[i])) => items[j] = None

----------------------------------------------------------------------------
(* Further claims about the pair decoder                                   *)

\* The index of the first '=' of a text, 0 when it has none
FirstEq(text) ==
    IF \E i \in 1..Len(text) : text[i] = "="
    THEN CHOOSE i \in 1..Len(text) : text[i] = "=" /\ \A j \in 1..(i - 1) : text[j] # "="
    ELSE 0

\* C21: a fragment whose value, the text after the first '=', holds a space
\* is rejected: it never becomes the text of a pair.
C21_ValueBytesChecked ==
    (/\ output # None
     /\ FirstEq(input) > 0
     /\ \E k \in (FirstEq(input) + 1)..Len(input) : input[k] = " ")
        => ~IsOk(output.val.pair)

\* C22: for every pair that decodes, as_str() is the whole fragment, name()
\* is the text before the first '=' and value() is the text after it; no
\* accessor faults.
C22_Accessors ==
    (output # None /\ IsOk(output.val.pair)) =>
        /\ PairAsStr(output.val.pair.val) = input
        /\ output.val.tuple # None =>
              /\ output.val.tuple.val[1] = Ok(Take(input, FirstEq(input) - 1))
              /\ output.val.tuple.val[2] = Ok(Drop(input, FirstEq(input)))

----------------------------------------------------------------------------
(* The jar and the scope of a lookup: cookies with paths that do not end   *)
(* in a slash, with and without the secure and http_only flags, and URLs   *)
(* that differ in scheme, port, query and last path component              *)

PathA == <<"/", "a">>

PathAB == <<"/", "a", "/", "b">>

PathAC == <<"/", "a", "/", "c">>

PathOtherTop == <<"/", "o", "t", "h", "e", "r">>

PairM1 == <<"m", "=", "1">>

ScopeCookies ==
    {[host |-> h, path |-> p,
      attributes |-> [DefaultAttributes EXCEPT !.pair = from_bytes(pr).val,
                                               !.secure = flag,
                                               !.http_only = flag]] :
        h \in {Domain(ExampleCom), Ipv4(Addr10)},
        p \in {PathA, PathAB},
        pr \in {PairN1, PairM1},
        flag \in BOOLEAN}

\* A url::Url with its port and its query, which the jar never reads
UrlWith(scheme, host, path, port, query) ==
    [scheme |-> scheme, host |-> host, path |-> path, port |-> port, query |-> query]

ScopeUrls ==
    {UrlWith(v[1], Some(h), p, v[2], v[3]) :
        v \in {<<"http", None, None>>, <<"https", None, None>>,
               <<"http", Some(8080), None>>, <<"http", None, Some(<<"q">>)>>},
        h \in {Domain(ExampleCom), Ipv4(Addr10)},
        p \in {PathA, PathAB, PathAC, PathOtherTop}}

InitScope == JarInit /\ CookieIdle /\ TextIdle

NextScope ==
    \/ \E cookie \in ScopeCookies : AddCookie(cookie)
    \/ \E u \in ScopeUrls : UrlMatches(u)
    \/ DropMatches

SpecScope == InitScope /\ [][NextScope]_vars

\* C23: a cookie stored with the path /a is returned for a request to /a and
\* to /a/b on its host, and is not returned for a request to /other.
C23_NoTrailingSlash ==
    \A i \in 1..Len(log) :
        (Looked /\ Held(i) /\ log[i].path = PathA /\ url.val.host = Some(log[i].host)) =>
            /\ url.val.path = PathA => RefOf(log[i]) \in matches.val
            /\ url.val.path = PathAB => RefOf(log[i]) \in matches.val
            /\ url.val.path = PathOtherTop => RefOf(log[i]) \notin matches.val

\* The jar a list of add_cookie calls makes of the empty jar
RECURSIVE JarOf(_)
JarOf(list) ==
    IF list = <<>> THEN JarDefault
    ELSE add_cookie(JarOf(Take(list, Len(list) - 1)), list[Len(list)])

\* The cookies of a list with the secure and http_only flags cleared
Unflagged(list) ==
    [i \in 1..Len(list) |->
        [list[i] EXCEPT !.attributes.secure = FALSE, !.attributes.http_only = FALSE]]

StoredIn(j, ref) ==
    IF ref.owner.kind = "Domain"
    THEN IF ref.owner.name \in DOMAIN j.domain
            /\ ref.node \in DOMAIN j.domain[ref.owner.name]
            /\ ref.name \in DOMAIN j.domain[ref.owner.name][ref.node]
         THEN {j.domain[ref.owner.name][ref.node][ref.name]}
         ELSE {}
    ELSE IF ref.owner \in DOMAIN j.hosts
            /\ ref.node \in DOMAIN j.hosts[ref.owner]
            /\ ref.name \in DOMAIN j.hosts[ref.owner][ref.node]
         THEN {j.hosts[ref.owner][ref.node][ref.name]}
         ELSE {}

----------------------------------------------------------------------------
(* Headers with several failing attributes: attributes that decode and     *)
(* that the builder refuses, and attributes that do not decode              *)

DomainSlash == DomainPrefix \o <<"a", "/", "b">>

StepFragments ==
    {DomainSlash, DomainPrefix \o ExampleCom, SecureText, HttpOnlyText,
     PathPrefix \o PathX, MaxAgeX, ExpiresNov}

InitSteps ==
    /\ \E parts \in SeqsUpTo(StepFragments, MaxParts) :
          /\ words = parts
          /\ input = Header(PairAB, parts)
    /\ output = None
    /\ JarInit
    /\ CookieIdle

OriginHttpIp == Url("http", Some(Ipv4(Addr10)), PathRoot)

\* Cookie::parse(set_cookie, origin) of the header text from an http origin.
\* Cookie::parse starts with Builder::new().origin(origin): calls holds it.
ParseInsecureCookie ==
    /\ output = None
    /\ \E origin \in {OriginHttp, OriginHttpIp} :
          /\ output' = Some(HeaderCall("Cookie_parse",
                                       Cookie_parse(input, origin, at_utc(clock))))
          /\ calls' = <<Call("origin", <<>>, FALSE, origin)>>
    /\ UNCHANGED <<words, input, jarVars, draft, product, rendered, reparsed, clock>>

NextSteps == ParseHeaderSetCookie \/ ParseInsecureCookie

SpecSteps == InitSteps /\ [][NextSteps]_vars

\* The error of a step that fails: a Domain that is no host, Secure over an
\* origin that is not https, a Max-Age that is no number, an Expires that is
\* no date
StepError(kind, fragment) ==
    IF fragment = DomainSlash THEN Some("Url")
    ELSE IF fragment = SecureText /\ kind = "Cookie_parse" THEN Some("InsecureOrigin")
    ELSE IF fragment = MaxAgeX THEN Some("ParseInt")
    ELSE IF fragment = ExpiresNov THEN Some("IncompleteDate")
    ELSE None

\* C24: when steps of a parsed header fail, the parser returns the error of
\* the first failing step; no later failure replaces it.
C24_FirstErrorKept ==
    output # None =>
        \A i \in 1..Len(words) :
            (/\ StepError(output.val.kind, words[i]) # None
             /\ \A j \in 1..(i - 1) : StepError(output.val.kind, words[j]) = None)
                => output.val.result = Err(StepError(output.val.kind, words[i]).val)

\* The hosts an origin may have in place of its own
OtherHosts == {Domain(ExampleCom), Domain(OtherExampleCom), Ipv4(Addr10)}

\* C30: Cookie::parse of a header that carries a Domain attribute gives the
\* same cookie, or the same error, from every origin that differs from the
\* origin of the call only in its host.
C30_OriginHostUnused ==
    (/\ output # None
     /\ output.val.kind = "Cookie_parse"
     /\ \E i \in 1..Len(words) : IsDomainArg(words[i]))
        => \A h \in OtherHosts :
              Cookie_parse(input, [calls[1].origin EXCEPT !.host = Some(h)], at_utc(clock))
                  = output.val.result

\* A header with Domain=example.com was parsed from the origin at 10.0.0.1 and
\* the cookie has the host example.com.
C30_Witness ==
    /\ output # None
    /\ output.val.kind = "Cookie_parse"
    /\ calls[1].origin = OriginHttpIp
    /\ \E i \in 1..Len(words) : IsDomainArg(words[i])
    /\ IsOk(output.val.result)
    /\ output.val.result.val.host = Domain(ExampleCom)

----------------------------------------------------------------------------
(* A claim about the order of builder calls                                *)

\* C28: whatever the order of the builder calls, when build_cookie succeeds
\* with secure = true, the URL of the last origin call, if there was one, has
\* the scheme https.
C28_SecureAnyOrder ==
    (/\ product # None
     /\ product.val.kind = "build_cookie"
     /\ IsOk(product.val.result)
     /\ product.val.result.val.attributes.secure)
        => \A i \in 1..Len(calls) :
              (/\ calls[i].method = "origin"
               /\ \A j \in (i + 1)..Len(calls) : calls[j].method # "origin")
                  => calls[i].origin.scheme = "https"

----------------------------------------------------------------------------
(* Date texts with delimiters before the first token and after the last    *)

PadsBefore == {<<>>, <<" ">>, <<",", " ">>}

PadsAfter == {<<>>, <<" ">>, <<".">>}

\* words holds the delimiters before, the four tokens and the delimiters after.
InitPad ==
    /\ \E order \in Orders, before \in PadsBefore, after \in PadsAfter :
          LET fields == <<TimeToken, <<"0", "6">>, MonthToken, Year1994>>
              tokens == [i \in 1..4 |-> fields[order[i]]]
          IN  /\ words = <<before>> \o tokens \o <<after>>
              /\ input = before \o Join(tokens, <<" ">>) \o after
    /\ output = None
    /\ JarInit
    /\ CookieIdle

NextPad == ParseDate

SpecPad == InitPad /\ [][NextPad]_vars

\* The date text without the delimiters before and after
Unpadded == Join(SubSeq(words, 2, 5), <<" ">>)

\* C25: a date text that parses still parses, and to the same date, when
\* delimiters are put before its first token and after its last token.
C25_OuterDelimiters ==
    (output # None /\ IsOk(date_parse(Unpadded))) => output.val = date_parse(Unpadded)

----------------------------------------------------------------------------
(* Date texts with any tokens in any number: two tokens for one slot,      *)
(* tokens for no slot, slots without a token                               *)

\* The number of tokens of a date text.
MaxTokens == 5

TimeLater == <<"1", "0", ":", "1", "8", ":", "1", "4">>

SlotTokens == {TimeToken, TimeLater, <<"0", "6">>, MonthToken, <<"J", "u", "n">>, Year1994}

InitSlots ==
    /\ \E tokens \in SeqsUpTo(SlotTokens, MaxTokens) :
          /\ words = tokens
          /\ input = Join(tokens, <<" ">>)
    /\ output = None
    /\ JarInit
    /\ CookieIdle

NextSlots == ParseDate

SpecSlots == InitSlots /\ [][NextSlots]_vars

\* The patterns of the grammar.  time: three fields of one or two digits
\* with ':' between them, no digit after the third.
TimeOf(token) ==
    LET parts == Split(token, ":") IN
    IF /\ Len(parts) >= 3
       /\ AllDigits(parts[1]) /\ Len(parts[1]) <= 2
       /\ AllDigits(parts[2]) /\ Len(parts[2]) <= 2
       /\ LeadingDigits(parts[3], 0, 0)[2] \in 1..2
    THEN Some(<<LeadingDigits(parts[1], 0, 0)[1], LeadingDigits(parts[2], 0, 0)[1],
                LeadingDigits(parts[3], 0, 0)[1]>>)
    ELSE None

\* day: one or two digits, no digit after them
DayOf(token) ==
    IF LeadingDigits(token, 0, 0)[2] \in 1..2
    THEN Some(LeadingDigits(token, 0, 0)[1]) ELSE None

\* month: the first three letters name a month, whatever the case
MonthOf(token) ==
    IF Len(token) >= 3 /\ \E m \in 1..12 : Lowercase(Take(token, 3)) = Months[m]
    THEN Some((CHOOSE m \in 1..12 : Lowercase(Take(token, 3)) = Months[m]) - 1)
    ELSE None

\* year: two to four digits, no digit after them; the calendar year
YearOf(token) ==
    LET run == LeadingDigits(token, 0, 0) IN
    IF run[2] \in 2..4
    THEN Some(IF run[2] = 2 THEN (IF run[1] <= 69 THEN 2000 + run[1] ELSE 1900 + run[1])
              ELSE run[1])
    ELSE None

\* First-wins filling: the token goes to the first empty slot, in the order
\* time, day, month, year, whose pattern it matches, or is skipped.
RECURSIVE Fill(_, _)
Fill(date, tokens) ==
    IF tokens = <<>> THEN date
    ELSE LET token == Head(tokens) IN
         Fill(IF date.time = None /\ TimeOf(token) # None
              THEN [date EXCEPT !.time = TimeOf(token)]
              ELSE IF date.day = None /\ DayOf(token) # None
              THEN [date EXCEPT !.day = DayOf(token)]
              ELSE IF date.month = None /\ MonthOf(token) # None
              THEN [date EXCEPT !.month = MonthOf(token)]
              ELSE IF date.year = None /\ YearOf(token) # None
              THEN [date EXCEPT !.year = YearOf(token)]
              ELSE date,
              Tail(tokens))

\* C26: the tokens fill the slots first-wins in the order time, day, month,
\* year, a filled slot is not overwritten and a token for no empty slot is
\* skipped without error: parsing fails with IncompleteDate exactly when a
\* slot is still empty after the last token, and a date that parses has the
\* values the first-wins filling gives.
C26_FirstWins ==
    output # None =>
        LET date == Fill(DateUnset, words) IN
        /\ output.val = Err("IncompleteDate")
              <=> (date.time = None \/ date.day = None \/ date.month = None \/ date.year = None)
        /\ IsOk(output.val) =>
              /\ <<output.val.val.tm_hour, output.val.val.tm_min, output.val.val.tm_sec>>
                    = date.time.val
              /\ output.val.val.tm_mday = date.day.val
              /\ output.val.val.tm_mon = date.month.val
              /\ output.val.val.tm_year + 1900 = date.year.val

====
